---------------------------- MODULE Spec2Model ----------------------------
(***************************************************************************)
(* Model of test-eventhub.py: a one-shot script that builds one order      *)
(* record, serialises it to JSON, puts it in one Event Hubs batch, sends   *)
(* the batch inside an `async with producer` block and prints status       *)
(* lines.  The SDK and the service are the environment: every SDK call     *)
(* either returns or raises, and the hub keeps what was delivered.         *)
(***************************************************************************)
EXTENDS Integers, Sequences, FiniteSets, TLC

\* ------------------------------------------------------------------ bounds
\* How many times the operator runs the script, one run after the other.
MaxRuns == 2

\* ------------------------------------------------------- JSON value model
\* Every value has the same fields so that two values of different Python
\* types can be compared: t is the type, s a str's text, n/d a number
\* (an int is n; a float is the decimal n / 10^d, as float.__repr__ prints
\* it), keys the keys of a dict and kids the elements of a list or the
\* values of a dict, in insertion order.
JStr(x) == [t |-> "str", s |-> x, n |-> 0, d |-> 0, keys |-> <<>>, kids |-> <<>>]
JInt(x) == [t |-> "int", s |-> "", n |-> x, d |-> 0, keys |-> <<>>, kids |-> <<>>]
JFloat(m, e) == [t |-> "float", s |-> "", n |-> m, d |-> e, keys |-> <<>>, kids |-> <<>>]
JList(xs) == [t |-> "list", s |-> "", n |-> 0, d |-> 0, keys |-> <<>>, kids |-> xs]
JDict(ks, vs) == [t |-> "dict", s |-> "", n |-> 0, d |-> 0, keys |-> ks, kids |-> vs]

\* The literal of lines 22-31.  99.99 is the float 9999 / 10^2.
TestOrder ==
  JDict(<<"user_id", "order_id", "timestamp", "amount", "currency", "items">>,
        <<JStr("test-user-12345"),
          JStr("test-order-67890"),
          JStr("2025-10-27T23:20:00Z"),
          JFloat(9999, 2),
          JStr("USD"),
          JList(<<JDict(<<"product_id", "quantity", "price">>,
                        <<JStr("test-product"), JInt(1), JFloat(9999, 2)>>)>>)>>)

\* ------------------------------------------------------------ JSON text
\* JSON text is a sequence of tokens.  A number token keeps the printed
\* digits: ip is the integer part and frac the digits after the point
\* (<<>> when the text has no point).  sp is one space, nl a newline
\* followed by ip spaces.
Punct(c) == [k |-> c, s |-> "", ip |-> 0, frac |-> <<>>]
StrTok(x) == [k |-> "str", s |-> x, ip |-> 0, frac |-> <<>>]
NumTok(i, f) == [k |-> "num", s |-> "", ip |-> i, frac |-> f]
Space == [k |-> "sp", s |-> "", ip |-> 1, frac |-> <<>>]
Newline(n) == [k |-> "nl", s |-> "", ip |-> n, frac |-> <<>>]

RECURSIVE Pow10(_)
Pow10(e) == IF e = 0 THEN 1 ELSE 10 * Pow10(e - 1)

\* A repr that drops the digits after the point.
FloatReprTruncated(m, e) == NumTok(m \div Pow10(e), <<>>)

\* float.__repr__ of the decimal m / 10^e: "99.99"; a whole float keeps
\* one zero after the point ("99.0").
FloatRepr(m, e) ==
  NumTok(m \div Pow10(e),
         IF e = 0 THEN <<0>> ELSE [i \in 1..e |-> (m \div Pow10(e - i)) % 10])

\* int.__repr__: digits only.
IntRepr(n) == NumTok(n, <<>>)

\* json.dumps separators: ", " and ": " by default; with indent the item
\* separator is "," and every item starts on a new line.
ItemSep(indent, level) ==
  IF indent < 0 THEN <<Punct(","), Space>>
                ELSE <<Punct(","), Newline(indent * level)>>
OpenNl(indent, level) == IF indent < 0 THEN <<>> ELSE <<Newline(indent * level)>>

\* json.dumps(obj) is Dumps(obj, -1, 0); json.dumps(obj, indent=2) is
\* Dumps(obj, 2, 0).
RECURSIVE Dumps(_, _, _), DumpItems(_, _, _, _)
DumpItems(o, i, indent, level) ==
  IF i > Len(o.kids) THEN <<>>
  ELSE (IF i > 1 THEN ItemSep(indent, level) ELSE <<>>)
       \o (IF o.t = "dict" THEN <<StrTok(o.keys[i]), Punct(":"), Space>> ELSE <<>>)
       \o Dumps(o.kids[i], indent, level)
       \o DumpItems(o, i + 1, indent, level)
Dumps(o, indent, level) ==
  CASE o.t = "str" -> <<StrTok(o.s)>>
    [] o.t = "int" -> <<IntRepr(o.n)>>
    [] o.t = "float" -> <<FloatRepr(o.n, o.d)>>
    [] OTHER ->
         LET open == IF o.t = "dict" THEN Punct("{") ELSE Punct("[")
             close == IF o.t = "dict" THEN Punct("}") ELSE Punct("]")
         IN IF o.kids = <<>> THEN <<open, close>>
            ELSE <<open>> \o OpenNl(indent, level + 1)
                 \o DumpItems(o, 1, indent, level + 1)
                 \o OpenNl(indent, level) \o <<close>>

\* json.loads: what the decoder rejects.
JBad == [t |-> "bad", s |-> "", n |-> 0, d |-> 0, keys |-> <<>>, kids |-> <<>>]

RECURSIVE SkipWs(_)
SkipWs(toks) ==
  IF toks # <<>> /\ Head(toks).k \in {"sp", "nl"} THEN SkipWs(Tail(toks)) ELSE toks

RECURSIVE DigitsValue(_)
DigitsValue(f) ==
  IF f = <<>> THEN 0 ELSE 10 * DigitsValue(SubSeq(f, 1, Len(f) - 1)) + f[Len(f)]

\* A float is the same float whatever trailing zeros its text had.
RECURSIVE NormFloat(_, _)
NormFloat(m, e) ==
  IF e > 0 /\ m % 10 = 0 THEN NormFloat(m \div 10, e - 1) ELSE JFloat(m, e)

\* The decoder's number rule: text without a point is an int, text with
\* one is a float.
ParseNumber(tok) ==
  IF tok.frac = <<>> THEN JInt(tok.ip)
  ELSE NormFloat(tok.ip * Pow10(Len(tok.frac)) + DigitsValue(tok.frac), Len(tok.frac))

Fail == [val |-> JBad, rest |-> <<>>]

RECURSIVE ParseValue(_), ParseElems(_, _), ParseMembers(_, _, _)
ParseValue(toks) ==
  LET t == SkipWs(toks) IN
  IF t = <<>> THEN Fail
  ELSE CASE Head(t).k = "str" -> [val |-> JStr(Head(t).s), rest |-> Tail(t)]
         [] Head(t).k = "num" -> [val |-> ParseNumber(Head(t)), rest |-> Tail(t)]
         [] Head(t).k = "[" ->
              IF SkipWs(Tail(t)) # <<>> /\ Head(SkipWs(Tail(t))).k = "]"
              THEN [val |-> JList(<<>>), rest |-> Tail(SkipWs(Tail(t)))]
              ELSE ParseElems(Tail(t), <<>>)
         [] Head(t).k = "{" ->
              IF SkipWs(Tail(t)) # <<>> /\ Head(SkipWs(Tail(t))).k = "}"
              THEN [val |-> JDict(<<>>, <<>>), rest |-> Tail(SkipWs(Tail(t)))]
              ELSE ParseMembers(Tail(t), <<>>, <<>>)
         [] OTHER -> Fail
ParseElems(toks, acc) ==
  LET r == ParseValue(toks)
      t == SkipWs(r.rest)
  IN IF r.val = JBad \/ t = <<>> THEN Fail
     ELSE CASE Head(t).k = "," -> ParseElems(Tail(t), Append(acc, r.val))
            [] Head(t).k = "]" -> [val |-> JList(Append(acc, r.val)), rest |-> Tail(t)]
            [] OTHER -> Fail
ParseMembers(toks, ks, vs) ==
  LET t == SkipWs(toks) IN
  IF t = <<>> \/ Head(t).k # "str" THEN Fail
  ELSE LET c == SkipWs(Tail(t)) IN
       IF c = <<>> \/ Head(c).k # ":" THEN Fail
       ELSE LET r == ParseValue(Tail(c))
                u == SkipWs(r.rest)
            IN IF r.val = JBad \/ u = <<>> THEN Fail
               ELSE CASE Head(u).k = "," ->
                           ParseMembers(Tail(u), Append(ks, Head(t).s), Append(vs, r.val))
                      [] Head(u).k = "}" ->
                           [val |-> JDict(Append(ks, Head(t).s), Append(vs, r.val)),
                            rest |-> Tail(u)]
                      [] OTHER -> Fail

\* json.loads(text): one value, then nothing but white space.
Loads(toks) ==
  LET r == ParseValue(toks) IN IF SkipWs(r.rest) = <<>> THEN r.val ELSE JBad

\* ------------------------------------------------------ connection string
\* A connection string is its ";"-separated "key=value" segments, in order;
\* the empty string of line 11 has none.
EmptyConnStr == <<>>
NoKeyConnStr == << <<"Endpoint", "sb://otel.servicebus.windows.net/">> >>
FullConnStr ==
  << <<"Endpoint", "sb://otel.servicebus.windows.net/">>,
     <<"SharedAccessKeyName", "send">>,
     <<"SharedAccessKey", "c2VjcmV0">> >>
\* What the operator may have put on line 11 before a run.
ConnStrs == {EmptyConnStr, NoKeyConnStr, FullConnStr}

HasKey(cs, key) == \E i \in 1..Len(cs) : cs[i][1] = key /\ cs[i][2] # ""
\* from_connection_string accepts a string that names the endpoint and a
\* credential, and raises ValueError on any other.
WellFormed(cs) ==
  /\ HasKey(cs, "Endpoint")
  /\ \/ HasKey(cs, "SharedAccessKeyName") /\ HasKey(cs, "SharedAccessKey")
     \/ HasKey(cs, "SharedAccessSignature")

\* ------------------------------------------------------------------ state
VARIABLES
  run,                \* which run of the script this is (1, 2, ...)
  connection_string,  \* line 11, as the operator left it for this run
  pc,                 \* the line the run is at
  producer,           \* line 15: "none" or "client"
  conn,               \* the scoped connection: "none", "open", "closed"
  test_order,         \* line 22
  event_data_batch,   \* line 34
  event_data,         \* line 37
  exc,                \* the exception being propagated, "none" if none
  stdout,             \* the lines printed by this run
  stderr,             \* the traceback of this run, if any
  exit_status,        \* -1 while the process runs, then 0 or 1
  log,                \* the calls and prints of this run, in order
  hub,                \* the messages the event hub has received, all runs
  finished            \* the exit status of every earlier run

vars == <<run, connection_string, pc, producer, conn, test_order,
          event_data_batch, event_data, exc, stdout, stderr, exit_status,
          log, hub, finished>>

Unset == [t |-> "unset", s |-> "", n |-> 0, d |-> 0, keys |-> <<>>, kids |-> <<>>]
NoBatch == [created |-> FALSE, events |-> <<>>]
NoEvent == [created |-> FALSE, body |-> <<>>]

LineTesting == "Testing EventHub integration..."
LineBanner == "Successfully sent test message to EventHub!"
LineMessage == "Message: "
LineCompleted == "Test completed!"
Line(text, payload) == [text |-> text, payload |-> payload]

\* One entry of the log: a call or a print, the number of events it
\* carried or returned, and how it ended.
Entry(ev, n, result) == [ev |-> ev, n |-> n, result |-> result]

Init ==
  /\ run = 1
  /\ hub = <<>>
  /\ finished = <<>>
  /\ connection_string \in ConnStrs
  /\ pc = "L46"
  /\ producer = "none"
  /\ conn = "none"
  /\ test_order = Unset
  /\ event_data_batch = NoBatch
  /\ event_data = NoEvent
  /\ exc = "none"
  /\ stdout = <<>>
  /\ stderr = <<>>
  /\ exit_status = -1
  /\ log = <<>>

\* ------------------------------------------------------- control transfer
\* Every raise routed through the block's exit, entered or not.
RaiseToAlwaysExit(inBlock) == "L20exit"

\* A raise inside the `async with` block goes to the block's exit; a raise
\* outside it leaves the coroutine.
RaiseTo(inBlock) == IF inBlock THEN "L20exit" ELSE "L47end"

\* ---------------------------------------------------------------- actions
\* line 46
PrintTesting ==
  /\ pc = "L46"
  /\ stdout' = Append(stdout, Line(LineTesting, <<>>))
  /\ log' = Append(log, Entry("print_testing", 0, "ok"))
  /\ pc' = "L15"
  /\ UNCHANGED <<run, connection_string, producer, conn, test_order,
                 event_data_batch, event_data, exc, stderr, exit_status,
                 hub, finished>>

\* A client built without validating the connection string.
FromConnectionStringUnchecked ==
  /\ pc = "L15"
  /\ producer' = "client"
  /\ log' = Append(log, Entry("from_connection_string", 0, "ok"))
  /\ pc' = "L20"
  /\ UNCHANGED <<run, connection_string, conn, test_order, event_data_batch,
                 event_data, exc, stdout, stderr, exit_status, hub, finished>>

\* lines 11-18: asyncio.run starts the coroutine, which builds the client.
FromConnectionString ==
  /\ pc = "L15"
  /\ IF WellFormed(connection_string)
     THEN /\ producer' = "client"
          /\ log' = Append(log, Entry("from_connection_string", 0, "ok"))
          /\ pc' = "L20"
          /\ exc' = exc
     ELSE /\ producer' = producer
          /\ log' = Append(log, Entry("from_connection_string", 0, "raise"))
          /\ pc' = RaiseTo(FALSE)
          /\ exc' = "ValueError"
  /\ UNCHANGED <<run, connection_string, conn, test_order, event_data_batch,
                 event_data, stdout, stderr, exit_status, hub, finished>>

\* line 20, entering: producer.__aenter__()
AEnter ==
  /\ pc = "L20"
  /\ conn' = "open"
  /\ log' = Append(log, Entry("__aenter__", 0, "ok"))
  /\ pc' = "L22"
  /\ UNCHANGED <<run, connection_string, producer, test_order,
                 event_data_batch, event_data, exc, stdout, stderr,
                 exit_status, hub, finished>>

\* line 20, __aenter__ raising: the block is not entered and __aexit__ is
\* not called.
AEnterRaise ==
  /\ pc = "L20"
  /\ log' = Append(log, Entry("__aenter__", 0, "raise"))
  /\ exc' = "EventHubError"
  /\ pc' = RaiseTo(FALSE)
  /\ UNCHANGED <<run, connection_string, producer, conn, test_order,
                 event_data_batch, event_data, stdout, stderr, exit_status,
                 hub, finished>>

\* lines 22-31
BuildOrder ==
  /\ pc = "L22"
  /\ test_order' = TestOrder
  /\ pc' = "L34"
  /\ UNCHANGED <<run, connection_string, producer, conn, event_data_batch,
                 event_data, exc, stdout, stderr, exit_status, log, hub,
                 finished>>

\* line 34: await producer.create_batch()
CreateBatch ==
  /\ pc = "L34"
  /\ event_data_batch' = [created |-> TRUE, events |-> <<>>]
  /\ log' = Append(log, Entry("create_batch", Len(event_data_batch'.events), "ok"))
  /\ pc' = "L37"
  /\ UNCHANGED <<run, connection_string, producer, conn, test_order,
                 event_data, exc, stdout, stderr, exit_status, hub, finished>>

\* A failed create_batch that is tried again.
CreateBatchRetry ==
  /\ pc = "L34"
  /\ log' = Append(log, Entry("create_batch", 0, "raise"))
  /\ pc' = "L34"
  /\ UNCHANGED <<run, connection_string, producer, conn, test_order,
                 event_data_batch, event_data, exc, stdout, stderr,
                 exit_status, hub, finished>>

CreateBatchRaise ==
  /\ pc = "L34"
  /\ log' = Append(log, Entry("create_batch", 0, "raise"))
  /\ exc' = "EventHubError"
  /\ pc' = RaiseTo(TRUE)
  /\ UNCHANGED <<run, connection_string, producer, conn, test_order,
                 event_data_batch, event_data, stdout, stderr, exit_status,
                 hub, finished>>

\* line 37: EventData(json.dumps(test_order))
MakeEventData ==
  /\ pc = "L37"
  /\ event_data' = [created |-> TRUE, body |-> Dumps(test_order, -1, 0)]
  /\ log' = Append(log, Entry("EventData", 0, "ok"))
  /\ pc' = "L38"
  /\ UNCHANGED <<run, connection_string, producer, conn, test_order,
                 event_data_batch, exc, stdout, stderr, exit_status, hub,
                 finished>>

\* An add that puts the event in the batch twice.
AddTwice ==
  /\ pc = "L38"
  /\ event_data_batch' =
       [event_data_batch EXCEPT !.events = Append(Append(@, event_data), event_data)]
  /\ log' = Append(log, Entry("add", Len(event_data_batch'.events), "ok"))
  /\ pc' = "L41"
  /\ UNCHANGED <<run, connection_string, producer, conn, test_order,
                 event_data, exc, stdout, stderr, exit_status, hub, finished>>

\* line 38: event_data_batch.add(event_data)
Add ==
  /\ pc = "L38"
  /\ event_data_batch' =
       [event_data_batch EXCEPT !.events = Append(@, event_data)]
  /\ log' = Append(log, Entry("add", Len(event_data_batch'.events), "ok"))
  /\ pc' = "L41"
  /\ UNCHANGED <<run, connection_string, producer, conn, test_order,
                 event_data, exc, stdout, stderr, exit_status, hub, finished>>

\* line 38, the batch refusing the event (ValueError: size limit reached)
AddRaise ==
  /\ pc = "L38"
  /\ log' = Append(log, Entry("add", Len(event_data_batch.events), "raise"))
  /\ exc' = "ValueError"
  /\ pc' = RaiseTo(TRUE)
  /\ UNCHANGED <<run, connection_string, producer, conn, test_order,
                 event_data_batch, event_data, stdout, stderr, exit_status,
                 hub, finished>>

\* What the hub holds once it has received a batch of this run.
Deliver(h, r, batch) ==
  h \o [i \in 1..Len(batch.events) |-> [run |-> r, body |-> batch.events[i].body]]

\* A send that skips a batch whose events the hub already holds.
SendBatchDeduplicating ==
  /\ pc = "L41"
  /\ hub' = IF \E i \in 1..Len(hub) : \E j \in 1..Len(event_data_batch.events) :
                  hub[i].body = event_data_batch.events[j].body
            THEN hub ELSE Deliver(hub, run, event_data_batch)
  /\ log' = Append(log, Entry("send_batch", Len(event_data_batch.events), "ok"))
  /\ pc' = "L42"
  /\ UNCHANGED <<run, connection_string, producer, conn, test_order,
                 event_data_batch, event_data, exc, stdout, stderr,
                 exit_status, finished>>

\* line 41: await producer.send_batch(event_data_batch)
SendBatch ==
  /\ pc = "L41"
  /\ hub' = Deliver(hub, run, event_data_batch)
  /\ log' = Append(log, Entry("send_batch", Len(event_data_batch.events), "ok"))
  /\ pc' = "L42"
  /\ UNCHANGED <<run, connection_string, producer, conn, test_order,
                 event_data_batch, event_data, exc, stdout, stderr,
                 exit_status, finished>>

\* A failed send whose exception is swallowed: the run goes on to line 42.
SendBatchRaiseSwallowed ==
  /\ pc = "L41"
  /\ \E delivered \in BOOLEAN :
       hub' = IF delivered THEN Deliver(hub, run, event_data_batch) ELSE hub
  /\ log' = Append(log, Entry("send_batch", Len(event_data_batch.events), "raise"))
  /\ pc' = "L42"
  /\ UNCHANGED <<run, connection_string, producer, conn, test_order,
                 event_data_batch, event_data, exc, stdout, stderr,
                 exit_status, finished>>

\* line 41 raising.  The batch may have reached the hub all the same (the
\* acknowledgement was lost) or not at all.
SendBatchRaise ==
  /\ pc = "L41"
  /\ \E delivered \in BOOLEAN :
       hub' = IF delivered THEN Deliver(hub, run, event_data_batch) ELSE hub
  /\ log' = Append(log, Entry("send_batch", Len(event_data_batch.events), "raise"))
  /\ exc' = "EventHubError"
  /\ pc' = RaiseTo(TRUE)
  /\ UNCHANGED <<run, connection_string, producer, conn, test_order,
                 event_data_batch, event_data, stdout, stderr, exit_status,
                 finished>>

\* Lines 42-43 dedented out of the `async with` block: the banner is
\* printed, but only after the block has been left.
PrintBannerOutsideBlock ==
  /\ pc = "L42"
  /\ conn' = "closed"
  /\ stdout' = Append(stdout, Line(LineBanner, <<>>))
  /\ log' = log \o <<Entry("__aexit__", 0, "ok"), Entry("print_banner", 0, "ok")>>
  /\ pc' = "L43"
  /\ UNCHANGED <<run, connection_string, producer, test_order,
                 event_data_batch, event_data, exc, stderr, exit_status,
                 hub, finished>>

\* line 42
PrintBanner ==
  /\ pc = "L42"
  /\ stdout' = Append(stdout, Line(LineBanner, <<>>))
  /\ log' = Append(log, Entry("print_banner", 0, "ok"))
  /\ pc' = "L43"
  /\ UNCHANGED <<run, connection_string, producer, conn, test_order,
                 event_data_batch, event_data, exc, stderr, exit_status,
                 hub, finished>>

\* line 43
PrintMessage ==
  /\ pc = "L43"
  /\ stdout' = Append(stdout, Line(LineMessage, Dumps(test_order, 2, 0)))
  /\ log' = Append(log, Entry("print_message", 0, "ok"))
  /\ pc' = "L20exit"
  /\ UNCHANGED <<run, connection_string, producer, conn, test_order,
                 event_data_batch, event_data, exc, stderr, exit_status,
                 hub, finished>>

\* A release that happens on the normal path only.
AExitOnSuccessOnly ==
  /\ pc = "L20exit"
  /\ conn' = IF exc = "none" THEN "closed" ELSE conn
  /\ log' = IF exc = "none" THEN Append(log, Entry("__aexit__", 0, "ok")) ELSE log
  /\ pc' = "L47end"
  /\ UNCHANGED <<run, connection_string, producer, test_order,
                 event_data_batch, event_data, exc, stdout, stderr,
                 exit_status, hub, finished>>

\* line 20, leaving the block, normally or with an exception in flight:
\* producer.__aexit__() closes the connection and lets the exception pass.
AExit ==
  /\ pc = "L20exit"
  /\ conn' = "closed"
  /\ log' = Append(log, Entry("__aexit__", 0, "ok"))
  /\ pc' = "L47end"
  /\ UNCHANGED <<run, connection_string, producer, test_order,
                 event_data_batch, event_data, exc, stdout, stderr,
                 exit_status, hub, finished>>

\* line 47: asyncio.run returns
RunReturn ==
  /\ pc = "L47end"
  /\ exc = "none"
  /\ pc' = "L48"
  /\ UNCHANGED <<run, connection_string, producer, conn, test_order,
                 event_data_batch, event_data, exc, stdout, stderr,
                 exit_status, log, hub, finished>>

\* An error path that reports success to the shell.
UnhandledExitZero ==
  /\ pc = "L47end"
  /\ exc # "none"
  /\ stderr' = Append(stderr, exc)
  /\ exit_status' = 0
  /\ pc' = "done"
  /\ UNCHANGED <<run, connection_string, producer, conn, test_order,
                 event_data_batch, event_data, exc, stdout, log, hub,
                 finished>>

\* line 47: asyncio.run re-raises; nothing catches it, the interpreter
\* prints the traceback and exits with status 1.
Unhandled ==
  /\ pc = "L47end"
  /\ exc # "none"
  /\ stderr' = Append(stderr, exc)
  /\ exit_status' = 1
  /\ pc' = "done"
  /\ UNCHANGED <<run, connection_string, producer, conn, test_order,
                 event_data_batch, event_data, exc, stdout, log, hub,
                 finished>>

\* line 48
PrintCompleted ==
  /\ pc = "L48"
  /\ stdout' = Append(stdout, Line(LineCompleted, <<>>))
  /\ log' = Append(log, Entry("print_completed", 0, "ok"))
  /\ pc' = "eof"
  /\ UNCHANGED <<run, connection_string, producer, conn, test_order,
                 event_data_batch, event_data, exc, stderr, exit_status,
                 hub, finished>>

\* end of the file: the interpreter exits with status 0.
ExitNormally ==
  /\ pc = "eof"
  /\ exit_status' = 0
  /\ pc' = "done"
  /\ UNCHANGED <<run, connection_string, producer, conn, test_order,
                 event_data_batch, event_data, exc, stdout, stderr, log,
                 hub, finished>>

\* The operator runs the script again: a new process, the same hub.
Rerun ==
  /\ pc = "done"
  /\ run < MaxRuns
  /\ run' = run + 1
  /\ finished' = Append(finished, exit_status)
  /\ hub' = hub
  /\ connection_string' \in ConnStrs
  /\ pc' = "L46"
  /\ producer' = "none"
  /\ conn' = "none"
  /\ test_order' = Unset
  /\ event_data_batch' = NoBatch
  /\ event_data' = NoEvent
  /\ exc' = "none"
  /\ stdout' = <<>>
  /\ stderr' = <<>>
  /\ exit_status' = -1
  /\ log' = <<>>

Step ==
  \/ PrintTesting \/ FromConnectionString \/ AEnter \/ AEnterRaise
  \/ BuildOrder \/ CreateBatch \/ CreateBatchRaise \/ MakeEventData
  \/ Add \/ AddRaise \/ SendBatch \/ SendBatchRaise \/ PrintBanner
  \/ PrintMessage \/ AExit \/ RunReturn \/ Unhandled \/ PrintCompleted
  \/ ExitNormally

Next == Step \/ Rerun

Spec == Init /\ [][Next]_vars

\* A started process runs on: the interpreter and the event loop take the
\* next step of the one task whenever there is one.
FairSpec == Spec /\ WF_vars(Step)

\* ------------------------------------------------------------ observation
Count(ev) == Cardinality({i \in 1..Len(log) : log[i].ev = ev})
\* The place of the first ev in the log, 0 if there is none.
Pos(ev) ==
  IF \E i \in 1..Len(log) : log[i].ev = ev
  THEN CHOOSE i \in 1..Len(log) :
         log[i].ev = ev /\ \A j \in 1..(i - 1) : log[j].ev # ev
  ELSE 0
Before(i, ev, result) ==
  \E j \in 1..(i - 1) : log[j].ev = ev /\ log[j].result = result
Raised == \E i \in 1..Len(log) : log[i].result = "raise"
Printed(text) == \E i \in 1..Len(stdout) : stdout[i].text = text
\* The value of a key of a decoded object.
Get(o, key) ==
  IF \E i \in 1..Len(o.keys) : o.keys[i] = key
  THEN o.kids[CHOOSE i \in 1..Len(o.keys) : o.keys[i] = key]
  ELSE JBad
MessagesOf(r) == {i \in 1..Len(hub) : hub[i].run = r}
SuccessfulRuns ==
  {r \in 1..Len(finished) : finished[r] = 0}
    \cup (IF exit_status = 0 THEN {run} ELSE {})
SdkCalls ==
  {"from_connection_string", "__aenter__", "create_batch", "EventData",
   "add", "send_batch", "__aexit__"}
\* The fields the order event must have, read from a decoded body.
IsTheOrder(o) ==
  /\ o.t = "dict"
  /\ o.keys = <<"user_id", "order_id", "timestamp", "amount", "currency", "items">>
  /\ Get(o, "user_id") = JStr("test-user-12345")
  /\ Get(o, "order_id") = JStr("test-order-67890")
  /\ Get(o, "amount") = JFloat(9999, 2)
  /\ Get(o, "currency") = JStr("USD")
  /\ Get(o, "items").t = "list"
  /\ Len(Get(o, "items").kids) = 1
  /\ Get(Get(o, "items").kids[1], "product_id") = JStr("test-product")
  /\ Get(Get(o, "items").kids[1], "quantity") = JInt(1)
  /\ Get(Get(o, "items").kids[1], "price") = JFloat(9999, 2)

\* ------------------------------------------------------------------ claims
\* A finished run whose connection string was accepted and in which no
\* call raised.
AllCallsSucceeded ==
  /\ pc = "done"
  /\ WellFormed(connection_string)
  /\ ~Raised

\* C1: a run with a valid connection string in which every SDK call
\* succeeds creates one batch, empty when created, calls send_batch exactly
\* once with exactly one event in the batch, and the hub receives exactly
\* one message from the run, whose body is the JSON text of the fixed order.
C1_ExactlyOneMessage ==
  AllCallsSucceeded =>
    /\ Count("create_batch") = 1
    /\ log[Pos("create_batch")].n = 0
    /\ Count("send_batch") = 1
    /\ log[Pos("send_batch")].n = 1
    /\ Cardinality(MessagesOf(run)) = 1
    /\ \A i \in MessagesOf(run) :
         /\ hub[i].body = Dumps(TestOrder, -1, 0)
         /\ IsTheOrder(Loads(hub[i].body))
C1_Witness ==
  AllCallsSucceeded /\ Len(hub) = 1 /\ Len(event_data_batch.events) = 1

\* C2: with a connection string the SDK rejects (the empty one of line 11
\* among them) the run raises at client construction: send_batch is never
\* called, the success banner is never printed and the run ends in error.
C2_InvalidConnStrNoSend ==
  ~WellFormed(connection_string) =>
    /\ Count("send_batch") = 0
    /\ ~Printed(LineBanner)
    /\ MessagesOf(run) = {}
    /\ pc \notin {"L46", "L15"} =>
         /\ exc = "ValueError"
         /\ log[Len(log)] = Entry("from_connection_string", 0, "raise")
    /\ pc = "done" => exit_status = 1
C2_Witness ==
  connection_string = EmptyConnStr /\ pc = "done" /\ stderr = <<"ValueError">>

\* C3: once the `async with` block is entered the connection is eventually
\* released, whether the block ends normally or by an exception, and no
\* run ends with the connection open.
C3_EventuallyReleased ==
  /\ (conn = "open") ~> (conn = "closed")
  /\ [](pc = "done" => conn # "open")
C3_Witness ==
  conn = "closed" /\ exc # "none" /\ pc = "done"

\* C4: a failing step ends the run: after a call that raised nothing but the
\* release of the scoped connection is performed, the exception reaches the
\* top level, and no SDK call is made twice in one run.
C4_FailFastNoRetry ==
  /\ \A ev \in SdkCalls : Count(ev) <= 1
  /\ \A i \in 1..Len(log) :
       log[i].result = "raise" =>
         \A j \in (i + 1)..Len(log) : log[j].ev = "__aexit__"
  /\ Raised <=> exc # "none"
  /\ (pc = "done" /\ Raised) => (exit_status = 1 /\ stderr = <<exc>>)
C4_Witness ==
  /\ pc = "done"
  /\ Pos("create_batch") > 0
  /\ log[Pos("create_batch")].result = "raise"
  /\ log[Len(log)].ev = "__aexit__"

\* C5: the exit status is 0 exactly when the script ran to completion
\* ("Test completed!" printed last, nothing raised) and non-zero exactly
\* when some step raised.
C5_ExitStatus ==
  /\ exit_status \in {-1, 0, 1}
  /\ exit_status = -1 <=> pc # "done"
  /\ pc = "done" =>
       /\ exit_status = 0 <=>
            (exc = "none" /\ stdout[Len(stdout)].text = LineCompleted)
       /\ exit_status # 0 <=> Raised
  /\ \A r \in 1..Len(finished) : finished[r] \in {0, 1}
C5_Witness ==
  run = 2 /\ finished = <<0>> /\ pc = "done" /\ exit_status = 1

\* C6: every successful run delivers exactly one message of its own to the
\* hub, whatever earlier runs delivered, all delivered bodies are equal,
\* and a run starts from a fresh process state.
C6_NotIdempotent ==
  /\ \A r \in SuccessfulRuns : Cardinality(MessagesOf(r)) = 1
  /\ Len(hub) >= Cardinality(SuccessfulRuns)
  /\ \A i, j \in 1..Len(hub) : hub[i].body = hub[j].body
  /\ pc = "L46" =>
       /\ producer = "none" /\ conn = "none" /\ test_order = Unset
       /\ event_data_batch = NoBatch /\ event_data = NoEvent
       /\ exc = "none" /\ stdout = <<>> /\ log = <<>>
C6_Witness ==
  /\ run = 2 /\ finished = <<0>> /\ exit_status = 0
  /\ Len(hub) = 2 /\ hub[1].run = 1 /\ hub[2].run = 2
  /\ hub[1].body = hub[2].body

\* C7: decoding the JSON text of the message body gives back the order
\* record, with its six keys, amount 99.99 and its one item; the record is
\* the literal from its construction on, and the text echoed on the
\* console decodes to the same record.
C7_RoundTrip ==
  /\ test_order \in {Unset, TestOrder}
  /\ pc \notin {"L46", "L15", "L20", "L22"} /\ conn # "none" => test_order = TestOrder
  /\ event_data.created =>
       /\ Loads(event_data.body) = test_order
       /\ IsTheOrder(Loads(event_data.body))
  /\ \A i \in 1..Len(stdout) :
       stdout[i].text = LineMessage =>
         /\ Loads(stdout[i].payload) = test_order
         /\ Loads(stdout[i].payload) = Loads(event_data.body)
         /\ IsTheOrder(Loads(stdout[i].payload))
C7_Witness ==
  Printed(LineMessage) /\ event_data.created /\ Len(hub) > 0

\* C8 as stated: the success banner and the payload echo are printed after
\* the connection has been released.
C8_PrintsAfterRelease ==
  \A i \in 1..Len(log) :
    log[i].ev \in {"print_banner", "print_message"} => Before(i, "__aexit__", "ok")

\* C8 amended: a successful run performs connect, create batch, send, print
\* banner, print payload, disconnect, print "Test completed!" in this
\* order; the banner and the payload are printed while the connection is
\* still held.
C8_OrderOfSuccessfulRun ==
  /\ (pc = "done" /\ exit_status = 0) =>
       [i \in 1..Len(log) |-> log[i].ev] =
         <<"print_testing", "from_connection_string", "__aenter__",
           "create_batch", "EventData", "add", "send_batch", "print_banner",
           "print_message", "__aexit__", "print_completed">>
  /\ \A i \in 1..Len(log) :
       log[i].ev \in {"print_banner", "print_message"} =>
         /\ Before(i, "send_batch", "ok")
         /\ ~Before(i, "__aexit__", "ok")
  /\ pc = "L43" => conn = "open"
C8_Witness ==
  pc = "done" /\ exit_status = 0 /\ Printed(LineBanner) /\ conn = "closed"

\* C9: the banner is printed only after send_batch has returned normally,
\* "Test completed!" only after the banner and the payload echo, and the
\* first output of every run, failing or not, is the "Testing" line.
C9_OutputOrder ==
  /\ \A i \in 1..Len(log) :
       log[i].ev = "print_banner" => Before(i, "send_batch", "ok")
  /\ Printed(LineBanner) => Pos("print_banner") > 0
  /\ \A i \in 1..Len(stdout) :
       stdout[i].text = LineCompleted =>
         \E j, k \in 1..(i - 1) :
           j < k /\ stdout[j].text = LineBanner /\ stdout[k].text = LineMessage
  /\ stdout # <<>> => stdout[1].text = LineTesting
  /\ log # <<>> => log[1].ev = "print_testing"
  /\ pc # "L46" => stdout # <<>>
C9_Witness ==
  /\ run = 2 /\ finished = <<1>> /\ pc = "done"
  /\ Printed(LineCompleted) /\ Len(stdout) = 4

\* C10: create_batch and send_batch are called only between entering the
\* `async with` block and leaving it; when construction or __aenter__
\* raises, neither is called and nothing is released; the connection is
\* released at most once per run.
C10_CallsInsideScope ==
  /\ \A i \in 1..Len(log) :
       log[i].ev \in {"create_batch", "send_batch"} =>
         /\ Before(i, "__aenter__", "ok")
         /\ ~Before(i, "__aexit__", "ok")
  /\ pc \in {"L34", "L41"} => conn = "open"
  /\ Count("__aexit__") <= 1
  /\ \A i \in 1..Len(log) :
       log[i].ev = "__aexit__" => Before(i, "__aenter__", "ok")
  /\ (\E i \in 1..Len(log) :
        /\ log[i].ev \in {"from_connection_string", "__aenter__"}
        /\ log[i].result = "raise") =>
       /\ Count("create_batch") = 0
       /\ Count("send_batch") = 0
       /\ Count("__aexit__") = 0
       /\ conn = "none"
C10_Witness ==
  /\ pc = "done"
  /\ Pos("__aenter__") > 0
  /\ log[Pos("__aenter__")].result = "raise"


=============================================================================
